---- MODULE Spec2Model ----
(***************************************************************************)
(* Model of atmosphere's derive machinery: the entity declaration parser   *)
(* (atmosphere-macros/src/schema/table.rs), the code generated from a      *)
(* parsed table (table impl, relation impls, bind impl), the process-wide  *)
(* table registry used by the derive macro (atmosphere-macros/src/lib.rs)  *)
(* and the save operation of the Update trait.                             *)
(***************************************************************************)
EXTENDS Integers, Sequences, FiniteSets, TLC

VARIABLES
    \* ---- one derivation of one declaration (schema/table.rs)
    decl,       \* the item handed to Table::parse
    parsed,     \* the syn::Result<Table> of Table::parse
    phase,      \* "input" -> "parsed" -> "quoted" -> "bound" ("idle": none)
    impl,       \* the tokens emitted by the quote_* function under study
    call,       \* the last call of the generated bind()
    \* ---- the derive macro and its registry (lib.rs), one process per derive
    pc,         \* where each derivation stands in table()
    input,      \* the item each derivation was given
    tables,     \* the Table each derivation parsed
    outcome,    \* how each derivation ended
    tokens,     \* the token stream each derivation returned
    db,         \* the Database map: (Schema, String) -> Table
    guard,      \* the derivation that holds the MutexGuard, 0 when none does
    poisoned,   \* the Mutex's poison flag
    log,        \* the registration events so far, oldest first
    \* ---- one entity's storage table and a caller of save()
    rows,       \* the rows of the storage table
    now,        \* the storage clock
    sv          \* the save() call: its instance, its position, its statements

tabVars == <<decl, parsed, phase, impl, call>>
regVars == <<pc, input, tables, outcome, tokens, db, guard, poisoned, log>>

saveVars == <<rows, now, sv>>

vars == <<decl, parsed, phase, impl, call,
          pc, input, tables, outcome, tokens, db, guard, poisoned, log,
          rows, now, sv>>

-----------------------------------------------------------------------------
(* Bounds of the model *)

\* derive invocations in one build
NumProcs == 3
\* longest field list of a declaration
MaxFields == 3
\* most key = value pairs inside #[table(...)]
MaxArgs == 2
\* most role markers on one field
MaxMarkers == 2
\* last tick of the storage clock
MaxTime == 2

-----------------------------------------------------------------------------
(* Identifiers.  A type identifier is a sequence of characters, so that    *)
(* to_lowercase() and format!() are computed and not assumed.              *)

User == <<"U", "s", "e", "r">>
Post == <<"P", "o", "s", "t">>
Idents == {User, Post}

\* the i-th declared field of a struct; Rust rejects a struct with two
\* fields of one name, so the names of a declaration are distinct
FieldNames == <<"id", "author", "title", "created_at", "updated_at">>

Markers == {"pk", "fk", "meta"}
MarkerSets == {m \in SUBSET Markers : Cardinality(m) <= MaxMarkers}

NoIdent == <<>>

Err(e) == [ok |-> FALSE, err |-> e]

-----------------------------------------------------------------------------
(* TableId::parse: the arguments of #[table(schema = "..", name = "..")]   *)

NoValue == "<none>"

RECURSIVE TableIdLoop(_, _, _)
TableIdLoop(args, schema, table) ==
    IF args = <<>>
    THEN [ok |-> TRUE, schema |-> schema, table |-> table]
    ELSE LET ident == Head(args)[1]
             value == Head(args)[2]
         IN  CASE ident = "schema" -> TableIdLoop(Tail(args), value, table)
               [] ident = "name"   -> TableIdLoop(Tail(args), schema, value)
               [] OTHER            -> Err("unsupported_table_argument")

TableIdParse(args) ==
    LET r == TableIdLoop(args, NoValue, NoValue)
    IN  IF ~r.ok THEN r
        ELSE IF r.schema = NoValue THEN Err("table_requires_schema")
        ELSE IF r.table = NoValue THEN Err("table_requires_name")
        ELSE [ok |-> TRUE, id |-> [schema |-> r.schema, table |-> r.table]]

-----------------------------------------------------------------------------
(* Columns *)

\* Column::try_from(field): one role per field, data when unmarked, an
\* error when two role markers conflict
ColumnTryFrom(field) ==
    IF Cardinality(field.markers) > 1 THEN Err("conflicting_markers")
    ELSE [ok  |-> TRUE,
          col |-> [name |-> field.name,
                   role |-> IF "pk" \in field.markers THEN "PrimaryKey"
                            ELSE IF "fk" \in field.markers THEN "ForeignKey"
                            ELSE IF "meta" \in field.markers THEN "MetaColumn"
                            ELSE "DataColumn",
                   on   |-> field.on]]

\* Column::name(): the name, whatever the variant
ColumnName(col) == col.name

AsPrimaryKey(c) == c.role = "PrimaryKey"
AsForeignKey(c) == c.role = "ForeignKey"
AsDataColumn(c) == c.role = "DataColumn"
AsMetaColumn(c) == c.role = "MetaColumn"

\* A HashSet<T> is modelled by the sequence its iter() yields: every
\* element once, in an order the hasher decides (any order).
HashSetOf(S) ==
    {s \in [1..Cardinality(S) -> S] : \A i, j \in 1..Cardinality(S) : s[i] = s[j] => i = j}

Range(s) == {s[i] : i \in 1..Len(s)}

-----------------------------------------------------------------------------
(* Table::parse *)

\* lines 109-133: the one primary key of the column set
PrimaryKeyMany(columns) ==
    LET primary_keys == {c \in columns : AsPrimaryKey(c)}
    IN  IF Cardinality(primary_keys) > 2
        THEN Err("ambiguous_primary_key")
        ELSE IF primary_keys = {}
        THEN Err("missing_primary_key")
        ELSE [ok |-> TRUE, key |-> CHOOSE c \in primary_keys : TRUE]

PrimaryKeyNone(columns) ==
    LET primary_keys == {c \in columns : AsPrimaryKey(c)}
    IN  IF Cardinality(primary_keys) >= 1
        THEN Err("ambiguous_primary_key")
        ELSE Err("missing_primary_key")

PrimaryKeyOf(columns) ==
    LET primary_keys == {c \in columns : AsPrimaryKey(c)}
    IN  IF Cardinality(primary_keys) > 1
        THEN Err("ambiguous_primary_key")
        ELSE IF primary_keys = {}
        THEN Err("missing_primary_key")
        ELSE [ok |-> TRUE, key |-> CHOOSE c \in primary_keys : TRUE]

\* lines 103-107: the first field Column::try_from rejects fails the parse
ColumnsOf(fields) ==
    LET cs == [i \in 1..Len(fields) |-> ColumnTryFrom(fields[i])]
    IN  IF \E i \in 1..Len(fields) : ~cs[i].ok
        THEN cs[CHOOSE i \in 1..Len(fields) :
                    ~cs[i].ok /\ \A j \in 1..(i - 1) : cs[j].ok]
        ELSE [ok |-> TRUE, columns |-> {cs[i].col : i \in 1..Len(fields)}]

\* every result Table::parse can return for the item: a set, because the
\* iteration order of the three HashSets is the hasher's
TableParse(item) ==
    IF ~item.attr.present THEN {Err("missing_table_attribute")}
    ELSE LET id == TableIdParse(item.attr.args)
         IN  IF ~id.ok THEN {id}
             ELSE IF item.kind # "Named" THEN {Err("unnamed_fields")}
             ELSE LET cols == ColumnsOf(item.fields)
                  IN  IF ~cols.ok THEN {cols}
                      ELSE LET pk == PrimaryKeyOf(cols.columns)
                           IN  IF ~pk.ok THEN {pk}
                               ELSE {[ok    |-> TRUE,
                                      table |-> [ident        |-> item.ident,
                                                 id           |-> id.id,
                                                 primary_key  |-> pk.key,
                                                 foreign_keys |-> fks,
                                                 data_columns |-> ds,
                                                 meta_columns |-> ms]] :
                                      fks \in HashSetOf({c \in cols.columns : AsForeignKey(c)}),
                                      ds  \in HashSetOf({c \in cols.columns : AsDataColumn(c)}),
                                      ms  \in HashSetOf({c \in cols.columns : AsMetaColumn(c)})}

-----------------------------------------------------------------------------
(* Table::quote_table_impl *)

Names(cs) == [i \in 1..Len(cs) |-> cs[i].name]

QuoteTableImpl(table) ==
    [kind         |-> "Table",
     ident        |-> table.ident,
     SCHEMA       |-> table.id.schema,
     TABLE        |-> table.id.table,
     PRIMARY_KEY  |-> table.primary_key.name,
     FOREIGN_KEYS |-> Names(table.foreign_keys),
     DATA_COLUMNS |-> Names(table.data_columns),
     META_COLUMNS |-> Names(table.meta_columns),
     pk           |-> table.primary_key.name]

-----------------------------------------------------------------------------
(* Declarations fed to one derivation *)

\* the field lists: the i-th field is named FieldNames[i]; a field that
\* carries the fk marker names the referenced type
FieldsAt(i, markerSets, targets) ==
    {[name |-> FieldNames[i], markers |-> m, on |-> t] :
        m \in {x \in markerSets : "fk" \in x}, t \in targets}
    \cup
    {[name |-> FieldNames[i], markers |-> m, on |-> NoIdent] :
        m \in {x \in markerSets : "fk" \notin x}}

FieldLists(markerSets, targets) ==
    UNION {{fs \in [1..n -> UNION {FieldsAt(i, markerSets, targets) : i \in 1..n}] :
                \A i \in 1..n : fs[i] \in FieldsAt(i, markerSets, targets)} :
           n \in 0..MaxFields}

ArgPairs == {<<"schema", "public">>, <<"name", "user">>, <<"other", "x">>}

ArgLists == UNION {[1..n -> ArgPairs] : n \in 0..MaxArgs}

TableAttrs == {[present |-> FALSE, args |-> <<>>]}
              \cup {[present |-> TRUE, args |-> a] : a \in ArgLists}

\* a unit struct has no fields and the fields of a tuple struct have no
\* names: only a struct with named fields carries a field list
Items(attrs, idents, markerSets, targets) ==
    {[attr |-> a, kind |-> "Named", ident |-> id, fields |-> fs] :
        a \in attrs, id \in idents, fs \in FieldLists(markerSets, targets)}
    \cup
    {[attr |-> a, kind |-> k, ident |-> id, fields |-> <<>>] :
        a \in attrs, id \in idents, k \in {"Unnamed", "Unit"}}

NoImpl == [kind |-> "none"]
NoCall == [kind |-> "none"]
Unparsed == Err("unparsed")

-----------------------------------------------------------------------------
(* One derivation: parse, then emit the table impl *)

Procs == 1..NumProcs

EmptyMap == [k \in {} |-> Unparsed]
NoItem == [kind |-> "none"]
NoTokens == <<>>

NoSave == [pc |-> "idle"]

\* an empty storage table and no save() under way
SaveIdle ==
    /\ rows = {}
    /\ now = 0
    /\ sv = NoSave

\* no derive invocation under way
RegIdle ==
    /\ pc = [p \in Procs |-> "start"]
    /\ input = [p \in Procs |-> NoItem]
    /\ tables = [p \in Procs |-> Unparsed]
    /\ outcome = [p \in Procs |-> "running"]
    /\ tokens = [p \in Procs |-> NoTokens]
    /\ db = EmptyMap
    /\ guard = 0
    /\ poisoned = FALSE
    /\ log = <<>>

InitParse ==
    /\ decl \in Items(TableAttrs, {User}, MarkerSets, {User})
    /\ parsed = Unparsed
    /\ phase = "input"
    /\ impl = NoImpl
    /\ call = NoCall
    /\ RegIdle
    /\ SaveIdle

Parse ==
    /\ phase = "input"
    /\ parsed' \in TableParse(decl)
    /\ phase' = "parsed"
    /\ UNCHANGED <<decl, impl, call>>
    /\ UNCHANGED <<regVars, saveVars>>

EmitTableImpl ==
    /\ phase = "parsed"
    /\ parsed.ok
    /\ impl' = QuoteTableImpl(parsed.table)
    /\ phase' = "quoted"
    /\ UNCHANGED <<decl, parsed, call>>
    /\ UNCHANGED <<regVars, saveVars>>

NextParse == Parse \/ EmitTableImpl

SpecParse == InitParse /\ [][NextParse]_vars

-----------------------------------------------------------------------------
(* Properties of Table::parse and quote_table_impl *)

PkMarked(item) == {i \in 1..Len(item.fields) : "pk" \in item.fields[i].markers}

\* the declaration reaches the primary-key check of Table::parse: it carries
\* a valid #[table(..)] attribute, has named fields, and every field
\* classifies into a column
ReachesKeyCheck(item) ==
    /\ item.attr.present
    /\ TableIdParse(item.attr.args).ok
    /\ item.kind = "Named"
    /\ \A i \in 1..Len(item.fields) : ColumnTryFrom(item.fields[i]).ok

KeyIsTheMarkedField ==
    /\ parsed.ok
    /\ \A i \in PkMarked(decl) :
          /\ parsed.table.primary_key.name = decl.fields[i].name
          /\ decl.fields[i].name \notin
                Range(Names(parsed.table.foreign_keys))
                \cup Range(Names(parsed.table.data_columns))
                \cup Range(Names(parsed.table.meta_columns))

\* C3, as claimed: every declaration with exactly one primary-key-marked
\* field parses, and the descriptor's primary key is that field, which is in
\* none of the foreign-key, data and meta sets.
C3_OneKeyAlwaysParses ==
    (phase # "input" /\ Cardinality(PkMarked(decl)) = 1) => KeyIsTheMarkedField

\* C3, amended: every declaration that reaches the primary-key check (valid
\* #[table] attribute, named fields, every field classifies) and has exactly
\* one primary-key-marked field parses, the descriptor's primary key is that
\* field, and the field is in none of the foreign-key, data and meta sets.
C3_OneKeyParses ==
    (phase # "input" /\ ReachesKeyCheck(decl) /\ Cardinality(PkMarked(decl)) = 1)
        => KeyIsTheMarkedField

C3_Witness ==
    /\ phase = "parsed"
    /\ ReachesKeyCheck(decl)
    /\ Cardinality(PkMarked(decl)) = 1
    /\ Len(decl.fields) = 3
    /\ parsed.ok
    /\ parsed.table.primary_key.name = "author"
    /\ Len(parsed.table.data_columns) = 1
    /\ Len(parsed.table.meta_columns) = 1

FailsWith(e) == ~parsed.ok /\ parsed.err = e /\ impl = NoImpl

\* C4, as claimed: every declaration without a primary-key-marked field
\* fails with the missing-primary-key error, every declaration with two or
\* more fails with the ambiguous-primary-key error, and no descriptor is
\* produced.
C4_KeyCountErrorsAlways ==
    phase # "input" =>
        /\ Cardinality(PkMarked(decl)) = 0 => FailsWith("missing_primary_key")
        /\ Cardinality(PkMarked(decl)) >= 2 => FailsWith("ambiguous_primary_key")

\* C4, amended: every declaration that reaches the primary-key check fails
\* with the missing-primary-key error when no field is primary-key-marked and
\* with the ambiguous-primary-key error when two or more are; in both cases
\* no descriptor is produced and nothing is emitted.
C4_KeyCountErrors ==
    (phase # "input" /\ ReachesKeyCheck(decl)) =>
        /\ Cardinality(PkMarked(decl)) = 0 => FailsWith("missing_primary_key")
        /\ Cardinality(PkMarked(decl)) >= 2 => FailsWith("ambiguous_primary_key")

C4_Witness ==
    /\ phase = "parsed"
    /\ ReachesKeyCheck(decl)
    /\ Len(decl.fields) = 3
    /\ Cardinality(PkMarked(decl)) = 2
    /\ FailsWith("ambiguous_primary_key")

DeclPos(name) == CHOOSE i \in 1..Len(decl.fields) : decl.fields[i].name = name

InDeclOrder(names) ==
    \A i, j \in 1..Len(names) : i < j => DeclPos(names[i]) < DeclPos(names[j])

\* C6: in the emitted Table impl the columns of FOREIGN_KEYS, of DATA_COLUMNS
\* and of META_COLUMNS each appear in the order their fields were declared.
C6_DeclarationOrder ==
    impl.kind = "Table" =>
        /\ InDeclOrder(impl.FOREIGN_KEYS)
        /\ InDeclOrder(impl.DATA_COLUMNS)
        /\ InDeclOrder(impl.META_COLUMNS)

-----------------------------------------------------------------------------
(* Table::quote_rel_impls *)

UpperCase == <<"A", "B", "C", "D", "E", "F", "G", "H", "I", "J", "K", "L", "M",
               "N", "O", "P", "Q", "R", "S", "T", "U", "V", "W", "X", "Y", "Z">>
LowerCase == <<"a", "b", "c", "d", "e", "f", "g", "h", "i", "j", "k", "l", "m",
               "n", "o", "p", "q", "r", "s", "t", "u", "v", "w", "x", "y", "z">>

\* str::to_lowercase, character by character
ToLowercase(s) ==
    [i \in 1..Len(s) |->
        IF \E k \in 1..Len(UpperCase) : UpperCase[k] = s[i]
        THEN LowerCase[CHOOSE k \in 1..Len(UpperCase) : UpperCase[k] = s[i]]
        ELSE s[i]]

\* format!("{}s", ident.to_lowercase())
FindAllSelf(ident) == ToLowercase(ident) \o <<"s">>
\* format!("{}", other.to_lowercase())
FindOther(other) == ToLowercase(other)
\* format!("drop_{}s", ident.to_lowercase())
DropSelf(ident) == <<"d", "r", "o", "p", "_">> \o ToLowercase(ident) \o <<"s">>

Fn(self, name, trait, implementor, param, method) ==
    [kind |-> "fn", self |-> self, name |-> name, trait |-> trait,
     implementor |-> implementor, param |-> param, method |-> method,
     column |-> NoValue]

TraitImpl(trait, implementor, param, column) ==
    [kind |-> "impl", self |-> implementor, name |-> NoIdent, trait |-> trait,
     implementor |-> implementor, param |-> param, method |-> NoValue,
     column |-> column]

\* a step that emits the referred-by side alone
RelStepReferedByOnly(ident, fk) ==
    <<Fn(ident, FindOther(fk.on), "RefersTo", ident, fk.on, "resolve"),
      Fn(fk.on, FindAllSelf(ident), "ReferedBy", fk.on, ident, "resolve"),
      Fn(fk.on, DropSelf(ident), "ReferedBy", fk.on, ident, "delete_all"),
      TraitImpl("ReferedBy", fk.on, ident, NoValue)>>

\* lines 215-281: what one iteration of the loop extends the stream with
RelStep(ident, fk) ==
    <<Fn(ident, FindOther(fk.on), "RefersTo", ident, fk.on, "resolve"),
      Fn(fk.on, FindAllSelf(ident), "ReferedBy", fk.on, ident, "resolve"),
      Fn(fk.on, DropSelf(ident), "ReferedBy", fk.on, ident, "delete_all"),
      TraitImpl("RefersTo", ident, fk.on, fk.name),
      TraitImpl("ReferedBy", fk.on, ident, NoValue)>>

\* the stream: one step per foreign key, in the HashSet's iteration order
QuoteRelImpls(table) ==
    [kind   |-> "Rel",
     stream |-> [i \in 1..Len(table.foreign_keys) |->
                    RelStep(table.ident, table.foreign_keys[i])]]

ValidAttr == [present |-> TRUE,
              args |-> <<<<"schema", "public">>, <<"name", "user">>>>]

InitRel ==
    /\ decl \in Items({ValidAttr}, Idents, MarkerSets, Idents)
    /\ parsed = Unparsed
    /\ phase = "input"
    /\ impl = NoImpl
    /\ call = NoCall
    /\ RegIdle
    /\ SaveIdle

EmitRelImpls ==
    /\ phase = "parsed"
    /\ parsed.ok
    /\ impl' = QuoteRelImpls(parsed.table)
    /\ phase' = "quoted"
    /\ UNCHANGED <<decl, parsed, call>>
    /\ UNCHANGED <<regVars, saveVars>>

NextRel == Parse \/ EmitRelImpls

SpecRel == InitRel /\ [][NextRel]_vars

\* the foreign-key fields of the declaration
FkFields == {i \in 1..Len(decl.fields) : decl.fields[i].markers = {"fk"}}

IsImpl(x, trait) == x.kind = "impl" /\ x.trait = trait

\* C7: in the emitted relation impls a referred-by impl of F for E stands
\* only in a step that also emits the refers-to impl of E for F, whose
\* FOREIGN_KEY is a foreign-key column of E on F; and every refers-to impl
\* comes with its referred-by impl in the same step.
C7_ReferedByOnlyWithRefersTo ==
    impl.kind = "Rel" =>
        \A s \in 1..Len(impl.stream) :
            LET step == impl.stream[s] IN
            /\ \A i \in 1..Len(step) :
                  IsImpl(step[i], "ReferedBy") =>
                      \E j \in 1..Len(step) :
                          /\ IsImpl(step[j], "RefersTo")
                          /\ step[j].implementor = step[i].param
                          /\ step[j].param = step[i].implementor
                          /\ \E f \in FkFields :
                                /\ decl.fields[f].name = step[j].column
                                /\ decl.fields[f].on = step[i].implementor
                                /\ decl.ident = step[i].param
            /\ \A j \in 1..Len(step) :
                  IsImpl(step[j], "RefersTo") =>
                      \E i \in 1..Len(step) :
                          /\ IsImpl(step[i], "ReferedBy")
                          /\ step[i].implementor = step[j].param
                          /\ step[i].param = step[j].implementor

C7_Witness ==
    /\ impl.kind = "Rel"
    /\ Len(impl.stream) = 2
    /\ \E i \in 1..Len(impl.stream[1]) : IsImpl(impl.stream[1][i], "ReferedBy")
    /\ impl.stream[1][4].param # impl.stream[2][4].param

\* the operations of the stream, each with the step that emitted it
Ops == {<<s, i>> \in (1..Len(impl.stream)) \X (1..5) :
            i <= Len(impl.stream[s]) /\ impl.stream[s][i].kind = "fn"}

OpOf(o) == impl.stream[o[1]][o[2]]

\* C8: every foreign-key column of E on F has its resolve-parent operation
\* on E and its resolve-children and delete-children operations on F, and no
\* operation of one (E, F, column) triple can be taken for an operation of
\* another: no two operations on one type share a name.
C8_DistinctOperationsPerTriple ==
    impl.kind = "Rel" =>
        /\ \A f \in FkFields :
              \E s \in 1..Len(impl.stream) :
                  /\ \E o \in Ops : o[1] = s /\ OpOf(o).self = decl.ident
                                    /\ OpOf(o).trait = "RefersTo"
                                    /\ OpOf(o).param = decl.fields[f].on
                  /\ \E o \in Ops : o[1] = s /\ OpOf(o).self = decl.fields[f].on
                                    /\ OpOf(o).method = "resolve"
                                    /\ OpOf(o).trait = "ReferedBy"
                  /\ \E o \in Ops : o[1] = s /\ OpOf(o).self = decl.fields[f].on
                                    /\ OpOf(o).method = "delete_all"
                  /\ \E i \in 1..Len(impl.stream[s]) :
                        impl.stream[s][i].column = decl.fields[f].name
        /\ \A o1, o2 \in Ops :
              (OpOf(o1).self = OpOf(o2).self /\ OpOf(o1).name = OpOf(o2).name)
                  => o1 = o2

-----------------------------------------------------------------------------
(* Table::quote_bind_impl and the bind() it generates *)

Branch(test, field) == [test |-> test, field |-> field]

\* a generator that also emits a branch for every meta column
QuoteBindImplWithMeta(table) ==
    [kind  |-> "Bind",
     ident |-> table.ident,
     binds |-> <<Branch(table.primary_key.name, table.primary_key.name)>>
               \o [i \in 1..Len(table.foreign_keys) |->
                      Branch(table.foreign_keys[i].name, table.foreign_keys[i].name)]
               \o [i \in 1..Len(table.data_columns) |->
                      Branch(table.data_columns[i].name, table.data_columns[i].name)]
               \o [i \in 1..Len(table.meta_columns) |->
                      Branch(table.meta_columns[i].name, table.meta_columns[i].name)]]

\* lines 287-347: the `if col.field() == .. { return Ok(..) }` branches in
\* the order they are emitted: the primary key (tested against
\* Self::PRIMARY_KEY.field), then the foreign keys, then the data columns
QuoteBindImpl(table) ==
    [kind  |-> "Bind",
     ident |-> table.ident,
     binds |-> <<Branch(table.primary_key.name, table.primary_key.name)>>
               \o [i \in 1..Len(table.foreign_keys) |->
                      Branch(table.foreign_keys[i].name, table.foreign_keys[i].name)]
               \o [i \in 1..Len(table.data_columns) |->
                      Branch(table.data_columns[i].name, table.data_columns[i].name)]]

\* query.dyn_bind(&value): the value becomes the next parameter of the query
DynBind(query, value) == Append(query, value)

\* the generated bind(&self, col, query): the first branch whose test equals
\* col.field() binds self's field and returns; no branch: BindError::Unknown
RECURSIVE Bind(_, _, _, _)
Bind(binds, self, col, query) ==
    IF binds = <<>>
    THEN [ok |-> FALSE, err |-> "Unknown", field |-> ColumnName(col)]
    ELSE IF ColumnName(col) = Head(binds).test
         THEN [ok |-> TRUE, query |-> DynBind(query, self[Head(binds).field])]
         ELSE Bind(Tail(binds), self, col, query)

Values == {"v1", "v2"}
Queries == {<<>>, <<"v0">>}
Roles == {"PrimaryKey", "ForeignKey", "DataColumn", "MetaColumn"}

SingleMarkers == {m \in MarkerSets : Cardinality(m) <= 1}

DeclNames == {decl.fields[i].name : i \in 1..Len(decl.fields)}

\* the Column<Self> values handed to bind(): the columns of the entity's own
\* descriptor, and a column (of any variant) that names no field of it
ColumnInputs ==
    {[name |-> c.name, role |-> c.role] :
        c \in {parsed.table.primary_key}
              \cup Range(parsed.table.foreign_keys)
              \cup Range(parsed.table.data_columns)
              \cup Range(parsed.table.meta_columns)}
    \cup {[name |-> "bogus", role |-> r] : r \in Roles}

InitBind ==
    /\ decl \in Items({ValidAttr}, {Post}, SingleMarkers, {User})
    /\ parsed = Unparsed
    /\ phase = "input"
    /\ impl = NoImpl
    /\ call = NoCall
    /\ RegIdle
    /\ SaveIdle

EmitBindImpl ==
    /\ phase = "parsed"
    /\ parsed.ok
    /\ impl' = QuoteBindImpl(parsed.table)
    /\ phase' = "quoted"
    /\ UNCHANGED <<decl, parsed, call>>
    /\ UNCHANGED <<regVars, saveVars>>

CallBind ==
    /\ phase = "quoted"
    /\ impl.kind = "Bind"
    /\ \E self \in [DeclNames -> Values], col \in ColumnInputs, query \in Queries :
          call' = [kind   |-> "bind",
                   self   |-> self,
                   col    |-> col,
                   query  |-> query,
                   result |-> Bind(impl.binds, self, col, query)]
    /\ phase' = "bound"
    /\ UNCHANGED <<decl, parsed, impl>>
    /\ UNCHANGED <<regVars, saveVars>>

NextBind == Parse \/ EmitBindImpl \/ CallBind

SpecBind == InitBind /\ [][NextBind]_vars

\* the names of the columns of the entity's descriptor
DescriptorNames(table) ==
    {table.primary_key.name}
    \cup Range(Names(table.foreign_keys)) \cup Range(Names(table.data_columns))
    \cup Range(Names(table.meta_columns))

Bound == call.result.ok
         /\ call.result.query = Append(call.query, call.self[call.col.name])

Unknown == ~call.result.ok /\ call.result.err = "Unknown"
           /\ call.result.field = call.col.name

\* C5, as claimed: bind returns Ok with the instance's value of the field
\* bound to the query for every column of the entity's descriptor, and
\* UnknownColumn with the column's name for every other column.
C5_BindEveryDescriptorColumn ==
    call.kind = "bind" =>
        IF ColumnName(call.col) \in DescriptorNames(parsed.table)
        THEN Bound ELSE Unknown

\* the names bind() dispatches on
BindNames(table) ==
    {table.primary_key.name} \cup Range(Names(table.foreign_keys))
                             \cup Range(Names(table.data_columns))

\* C5, amended: bind returns Ok with the instance's value of the field bound
\* to the query for every column named like the primary key, a foreign key
\* or a data column of the descriptor, and UnknownColumn with the column's
\* name for every other column, the entity's own meta columns included.
C5_BindKeyAndDataColumns ==
    call.kind = "bind" =>
        IF ColumnName(call.col) \in BindNames(parsed.table)
        THEN Bound ELSE Unknown

C5_Witness ==
    /\ call.kind = "bind"
    /\ Len(parsed.table.meta_columns) = 1
    /\ Len(parsed.table.data_columns) = 1
    /\ call.col \in {[name |-> c.name, role |-> c.role] :
                        c \in Range(parsed.table.data_columns)}
    /\ call.query = <<"v0">>
    /\ call.result.ok
    /\ call.result.query = <<"v0", "v2">>

-----------------------------------------------------------------------------
(* The derive macro table() and the Database registry (lib.rs) *)

TableNames == {"user", "post"}

DeriveAttrs == {[present |-> TRUE,
                 args |-> <<<<"schema", "public">>, <<"name", t>>>>] : t \in TableNames}

\* the items of a build: structs of at most one field
DeriveInputs ==
    {i \in Items(DeriveAttrs, Idents, {{}, {"pk"}}, {}) :
        Len(i.fields) = 1 \/ i.kind = "Unit"}

\* HashMap::insert: the value under the key, replacing what was there
MapInsert(m, k, v) == [x \in DOMAIN m \cup {k} |-> IF x = k THEN v ELSE m[x]]

\* a key made of the declared schema and table names
TidDeclared(t) == <<t.id.schema, t.id.table>>

\* line 37: tid = (Schema::Default, table.ident.to_string())
Tid(t) == <<"Default", t.ident>>

Event(p, e) == [proc |-> p, event |-> e]

\* lines 23-33: the input is a struct with named fields, or the macro panics;
\* then Table::parse, whose error ends the derivation before the registry
\* is touched
Derive(p) ==
    /\ pc[p] = "start"
    /\ \E item \in DeriveInputs :
          /\ input' = [input EXCEPT ![p] = item]
          /\ IF item.kind # "Named"
             THEN /\ tables' = [tables EXCEPT ![p] = Err("only_named_structs")]
                  /\ pc' = [pc EXCEPT ![p] = "failed"]
                  /\ outcome' = [outcome EXCEPT ![p] = "declaration_error"]
             ELSE \E r \in TableParse(item) :
                  /\ tables' = [tables EXCEPT ![p] = r]
                  /\ pc' = [pc EXCEPT ![p] = IF r.ok THEN "lock" ELSE "failed"]
                  /\ outcome' = [outcome EXCEPT ![p] =
                                    IF r.ok THEN "running" ELSE "declaration_error"]
    /\ UNCHANGED <<tokens, db, guard, poisoned, log>>
    /\ UNCHANGED <<tabVars, saveVars>>

\* a lock() that does not wait for the guard to be released
LockNoWait(p) ==
    /\ pc[p] = "lock"
    /\ guard' = p
    /\ pc' = [pc EXCEPT ![p] = "check"]
    /\ UNCHANGED <<input, tables, outcome, tokens, db, poisoned, log>>
    /\ UNCHANGED <<tabVars, saveVars>>

\* line 35: (*Database).lock().unwrap(): waits for the guard; on a poisoned
\* Mutex lock() is Err and unwrap() panics, releasing the guard it was given
Lock(p) ==
    /\ pc[p] = "lock"
    /\ guard = 0
    /\ IF poisoned
       THEN /\ pc' = [pc EXCEPT ![p] = "failed"]
            /\ outcome' = [outcome EXCEPT ![p] = "poisoned"]
            /\ log' = Append(log, Event(p, "poisoned"))
            /\ UNCHANGED guard
       ELSE /\ guard' = p
            /\ pc' = [pc EXCEPT ![p] = "check"]
            /\ UNCHANGED <<outcome, log>>
    /\ UNCHANGED <<input, tables, tokens, db, poisoned>>
    /\ UNCHANGED <<tabVars, saveVars>>

\* a check that lets every table through
CheckNothing(p) ==
    /\ pc[p] = "check"
    /\ pc' = [pc EXCEPT ![p] = "insert"]
    /\ UNCHANGED <<input, tables, outcome, tokens, db, guard, poisoned, log>>
    /\ UNCHANGED <<tabVars, saveVars>>

\* a check whose failure lets the derivation go on to its impls
CheckThenQuote(p) ==
    /\ pc[p] = "check"
    /\ IF Tid(tables[p].table) \in DOMAIN db
       THEN /\ pc' = [pc EXCEPT ![p] = "quote"]
            /\ outcome' = [outcome EXCEPT ![p] = "duplicate"]
            /\ log' = Append(log, Event(p, "duplicate"))
            /\ guard' = IF guard = p THEN 0 ELSE guard
            /\ poisoned' = TRUE
       ELSE /\ pc' = [pc EXCEPT ![p] = "insert"]
            /\ UNCHANGED <<outcome, log, guard, poisoned>>
    /\ UNCHANGED <<input, tables, tokens, db>>
    /\ UNCHANGED <<tabVars, saveVars>>

\* lines 39-43: assert!(db.contains_key(&tid) == false, ..): the panic unwinds
\* through the guard, which poisons the Mutex and releases it
Check(p) ==
    /\ pc[p] = "check"
    /\ IF Tid(tables[p].table) \in DOMAIN db
       THEN /\ pc' = [pc EXCEPT ![p] = "failed"]
            /\ outcome' = [outcome EXCEPT ![p] = "duplicate"]
            /\ log' = Append(log, Event(p, "duplicate"))
            /\ guard' = IF guard = p THEN 0 ELSE guard
            /\ poisoned' = TRUE
       ELSE /\ pc' = [pc EXCEPT ![p] = "insert"]
            /\ UNCHANGED <<outcome, log, guard, poisoned>>
    /\ UNCHANGED <<input, tables, tokens, db>>
    /\ UNCHANGED <<tabVars, saveVars>>

\* line 45: db.insert(tid, table.clone())
Insert(p) ==
    /\ pc[p] = "insert"
    /\ db' = MapInsert(db, Tid(tables[p].table), tables[p].table)
    /\ log' = Append(log, Event(p, "insert"))
    /\ pc' = [pc EXCEPT ![p] = "drop"]
    /\ UNCHANGED <<input, tables, outcome, tokens, guard, poisoned>>
    /\ UNCHANGED <<tabVars, saveVars>>

\* line 47: drop(db)
Drop(p) ==
    /\ pc[p] = "drop"
    /\ guard' = IF guard = p THEN 0 ELSE guard
    /\ pc' = [pc EXCEPT ![p] = "quote"]
    /\ UNCHANGED <<input, tables, outcome, tokens, db, poisoned, log>>
    /\ UNCHANGED <<tabVars, saveVars>>

\* lines 49-58: the table, read and write impls of the registered table
Quote(p) ==
    /\ pc[p] = "quote"
    /\ tokens' = [tokens EXCEPT ![p] = <<QuoteTableImpl(tables[p].table),
                                         [kind |-> "Read", ident |-> tables[p].table.ident],
                                         [kind |-> "Write", ident |-> tables[p].table.ident]>>]
    /\ pc' = [pc EXCEPT ![p] = "done"]
    /\ outcome' = [outcome EXCEPT ![p] = "derived"]
    /\ UNCHANGED <<input, tables, db, guard, poisoned, log>>
    /\ UNCHANGED <<tabVars, saveVars>>

TabIdle ==
    /\ decl = NoItem
    /\ parsed = Unparsed
    /\ phase = "idle"
    /\ impl = NoImpl
    /\ call = NoCall

Init == RegIdle /\ TabIdle /\ SaveIdle

Next ==
    \E p \in Procs :
        \/ Derive(p)
        \/ Lock(p)
        \/ Check(p)
        \/ Insert(p)
        \/ Drop(p)
        \/ Quote(p)

Spec == Init /\ [][Next]_vars

-----------------------------------------------------------------------------
(* Properties of the registry *)

\* the table of the derivation behind the i-th registration event
TableAt(i) == tables[log[i].proc].table

\* the declared (schema, table) pair of a table
PairOf(t) == <<t.id.schema, t.id.table>>

Inserts == {i \in 1..Len(log) : log[i].event = "insert"}

\* C1: a registration succeeds when no earlier registration claimed its
\* (schema, table) pair, and fails as a duplicate definition when one did.
C1_DuplicatePairRejected ==
    \A j \in 1..Len(log) :
        log[j].event =
            IF \E i \in Inserts : i < j /\ PairOf(TableAt(i)) = PairOf(TableAt(j))
            THEN "duplicate" ELSE "insert"

\* the registration events for one registry key
EventsFor(k) == {i \in 1..Len(log) : Tid(TableAt(i)) = k}

Keys == {Tid(TableAt(i)) : i \in 1..Len(log)}

InCriticalSection == {p \in Procs : pc[p] \in {"check", "insert", "drop"}}

PassedCheck == {p \in Procs : pc[p] \in {"insert", "drop", "quote", "done"}}

C10_RegistryOnlyGrows ==
    /\ DOMAIN db = {}
    /\ [][/\ \A k \in DOMAIN db : k \in DOMAIN db' /\ db'[k] = db[k]
          /\ db' # db => \E k \in DOMAIN db' : /\ k \notin DOMAIN db
                                               /\ DOMAIN db' = DOMAIN db \cup {k}
          /\ (\E p \in Procs : outcome[p] # "duplicate" /\ outcome'[p] = "duplicate")
                => db' = db
          /\ \A i, j \in Inserts' :
                Tid(TableAt(i)') = Tid(TableAt(j)') => i = j]_vars

C10_Witness ==
    /\ Cardinality(DOMAIN db) = 2
    /\ \E p \in Procs : /\ outcome[p] = "duplicate"
                        /\ db[Tid(tables[p].table)] # tables[p].table

\* the derivations that have registration events, and those that registered
Attempted == {log[i].proc : i \in 1..Len(log)}

Registered == {log[i].proc : i \in Inserts}

Failed == {p \in Procs : outcome[p] \in {"declaration_error", "duplicate", "poisoned"}}

\* C11: a derivation returns its Table/Read/Write impls only after its
\* declaration parsed and its table was inserted into the registry and the
\* guard was dropped; a derivation whose parse or registration failed returns
\* no impl, then or later; a derivation whose parse failed never reaches the
\* registry: it takes no lock and leaves no registration event.
C11_ImplsOnlyAfterRegistration ==
    /\ [](\A p \in Procs :
            /\ tokens[p] # NoTokens =>
                  /\ tables[p].ok
                  /\ p \in Registered
                  /\ Tid(tables[p].table) \in DOMAIN db
                  /\ db[Tid(tables[p].table)] = tables[p].table
                  /\ outcome[p] = "derived"
            /\ p \in Failed => tokens[p] = NoTokens /\ pc[p] = "failed"
            /\ (p \in Failed /\ p \in Attempted) => p \notin Registered
            /\ (pc[p] # "start" /\ ~tables[p].ok) =>
                  /\ outcome[p] = "declaration_error"
                  /\ p \notin Attempted
                  /\ guard # p)
    /\ [][\A p \in Procs :
            /\ tokens'[p] # tokens[p] =>
                  /\ tables[p].ok
                  /\ p \in Registered
                  /\ guard # p
                  /\ tokens[p] = NoTokens
            /\ p \in Failed => p \in Failed' /\ tokens'[p] = NoTokens
            /\ (guard # p /\ guard' = p) => tables[p].ok]_vars

\* one derivation returned its impls, one failed validation, one failed
\* registration
C11_Witness ==
    \E p, q, r \in Procs :
        /\ outcome[p] = "derived"
        /\ Len(tokens[p]) = 3
        /\ tokens[p][1].kind = "Table"
        /\ outcome[q] = "declaration_error"
        /\ tokens[q] = NoTokens
        /\ outcome[r] = "duplicate"
        /\ tokens[r] = NoTokens

\* an earlier registration of the type identifier of the j-th event
RegisteredBefore(j) ==
    \E i \in Inserts : i < j /\ TableAt(i).ident = TableAt(j).ident

\* C12: the registry is keyed by the default schema and the type identifier:
\* its keys are those of the registered tables' identifiers; a derivation for
\* an identifier registered before it is rejected, whatever schema and table
\* names it declares; a derivation fails as a duplicate only when its
\* identifier was registered before it, so two derivations of different
\* identifiers never conflict, equal declared names or not; no two
\* derivations of one identifier both pass the check.
C12_KeyIsTypeIdentifier ==
    /\ DOMAIN db = {<<"Default", TableAt(i).ident>> : i \in Inserts}
    /\ \A k \in DOMAIN db : db[k].ident = k[2]
    /\ \A j \in 1..Len(log) :
          /\ RegisteredBefore(j) => log[j].event # "insert"
          /\ log[j].event = "duplicate" => RegisteredBefore(j)
          /\ (log[j].event # "poisoned" /\ ~RegisteredBefore(j)) =>
                log[j].event = "insert"
    /\ \A p, q \in PassedCheck :
          tables[p].table.ident = tables[q].table.ident => p = q

\* two types declaring one (schema, table) pair are both registered, and a
\* second derivation of a registered type is rejected although it declares a
\* pair nobody claimed
C12_Witness ==
    /\ Len(log) = 3
    /\ log[1].event = "insert" /\ log[2].event = "insert"
    /\ TableAt(1).ident # TableAt(2).ident
    /\ PairOf(TableAt(1)) = PairOf(TableAt(2))
    /\ log[3].event = "duplicate"
    /\ TableAt(3).ident = TableAt(1).ident
    /\ PairOf(TableAt(3)) \notin {PairOf(TableAt(1)), PairOf(TableAt(2))}

-----------------------------------------------------------------------------
(* Update::save on the storage table of one entity: a primary key, a data  *)
(* column and an "updated" meta column                                     *)

Pks == {1, 2}
Datas == {"a", "b"}
Times == 0..MaxTime

\* the instances a caller can hold at time t
Instances(t) == {[pk |-> k, data |-> d, updated |-> u] : k \in Pks, d \in Datas, u \in 0..t}

Matching(rs, k) == {r \in rs : r.pk = k}

\* insert: one INSERT naming all columns, the "updated" column bound to now;
\* the storage rejects a second row with the primary key
InsertStmt(rs, e, t) ==
    IF Matching(rs, e.pk) # {}
    THEN [res |-> "DriverError", rows |-> rs]
    ELSE [res |-> "Ok",
          rows |-> rs \cup {[pk |-> e.pk, data |-> e.data, updated |-> t]}]

\* update: SET the data columns and the "updated" column (now) WHERE the
\* primary key matches; NotFound when no row was affected
UpdateStmt(rs, e, t) ==
    IF Matching(rs, e.pk) = {}
    THEN [res |-> "NotFound", rows |-> rs]
    ELSE [res |-> "Ok",
          rows |-> (rs \ Matching(rs, e.pk))
                   \cup {[r EXCEPT !.data = e.data, !.updated = t] :
                            r \in Matching(rs, e.pk)}]

DeleteStmt(rs, k) ==
    IF Matching(rs, k) = {}
    THEN [res |-> "NotFound", rows |-> rs]
    ELSE [res |-> "Ok", rows |-> rs \ Matching(rs, k)]

\* what the storage driver answers to a statement: its result, or a driver
\* error that leaves the table as it was
Execute(stmt, rs) == {stmt, [res |-> "DriverError", rows |-> rs]}

\* a caller starts save(e)
SaveBegin ==
    /\ sv.pc \in {"idle", "done"}
    /\ \E e \in Instances(now) :
          sv' = [pc |-> "update", e |-> e, attempts |-> <<>>, update |-> "none",
                 result |-> "none", interleaved |-> FALSE]
    /\ UNCHANGED <<rows, now>>
    /\ UNCHANGED <<tabVars, regVars>>

\* a save that falls back to insert whatever the update answered
SaveUpdateAlwaysInsert ==
    /\ sv.pc = "update"
    /\ \E r \in Execute(UpdateStmt(rows, sv.e, now), rows) :
          /\ rows' = r.rows
          /\ sv' = [sv EXCEPT !.attempts = Append(@, "update"),
                              !.update = r.res,
                              !.pc = "insert"]
    /\ UNCHANGED now
    /\ UNCHANGED <<tabVars, regVars>>

\* save, first statement: update; no matching row falls back to insert, any
\* other answer is save's answer
SaveUpdate ==
    /\ sv.pc = "update"
    /\ \E r \in Execute(UpdateStmt(rows, sv.e, now), rows) :
          /\ rows' = r.rows
          /\ sv' = [sv EXCEPT !.attempts = Append(@, "update"),
                              !.update = r.res,
                              !.pc = IF r.res = "NotFound" THEN "insert" ELSE "done",
                              !.result = IF r.res = "NotFound" THEN "none" ELSE r.res]
    /\ UNCHANGED now
    /\ UNCHANGED <<tabVars, regVars>>

\* save, the fallback: insert
SaveInsert ==
    /\ sv.pc = "insert"
    /\ \E r \in Execute(InsertStmt(rows, sv.e, now), rows) :
          /\ rows' = r.rows
          /\ sv' = [sv EXCEPT !.attempts = Append(@, "insert"),
                              !.pc = "done",
                              !.result = r.res]
    /\ UNCHANGED now
    /\ UNCHANGED <<tabVars, regVars>>

Interleave == IF sv.pc = "idle" THEN sv ELSE [sv EXCEPT !.interleaved = TRUE]

\* another caller's insert, update or delete, one statement each
OtherInsert ==
    /\ \E e \in Instances(now) : \E r \in Execute(InsertStmt(rows, e, now), rows) :
          rows' = r.rows
    /\ sv' = Interleave
    /\ UNCHANGED now
    /\ UNCHANGED <<tabVars, regVars>>

OtherUpdate ==
    /\ \E e \in Instances(now) : \E r \in Execute(UpdateStmt(rows, e, now), rows) :
          rows' = r.rows
    /\ sv' = Interleave
    /\ UNCHANGED now
    /\ UNCHANGED <<tabVars, regVars>>

OtherDelete ==
    /\ \E k \in Pks : \E r \in Execute(DeleteStmt(rows, k), rows) :
          rows' = r.rows
    /\ sv' = Interleave
    /\ UNCHANGED now
    /\ UNCHANGED <<tabVars, regVars>>

Tick ==
    /\ now < MaxTime
    /\ now' = now + 1
    /\ UNCHANGED <<rows, sv>>
    /\ UNCHANGED <<tabVars, regVars>>

InitSave == RegIdle /\ TabIdle /\ SaveIdle

NextSave ==
    \/ SaveBegin
    \/ SaveUpdate
    \/ SaveInsert
    \/ OtherInsert
    \/ OtherUpdate
    \/ OtherDelete
    \/ Tick

SpecSave == InitSave /\ [][NextSave]_vars

\* save attempts update first and insert only when the update matched no row
UpdateThenInsert ==
    sv.pc # "idle" =>
        /\ sv.attempts \in {<<>>, <<"update">>, <<"update", "insert">>}
        /\ (sv.pc = "insert" \/ sv.attempts = <<"update", "insert">>)
              => sv.update = "NotFound"
        /\ sv.pc = "done" => sv.attempts # <<>>

SavedAlone == sv.pc = "done" /\ sv.result = "Ok" /\ ~sv.interleaved

====
